---- MODULE Spec2Model ----
(***************************************************************************)
(* FeaturedGalleriesService.listFeaturedGalleries (src/unnamed/part_000). *)
(*                                                                         *)
(* The service is one async method.  Its suspension points are the awaits  *)
(* on the tenant directory and on the database; between two awaits the     *)
(* code runs without interruption.  Every action below is therefore "the   *)
(* awaited query completes, and the code runs up to the next await".       *)
(*                                                                         *)
(* The database tables and the directory are the inputs: they are chosen   *)
(* in Init and never written (the method only reads).  SQL leaves the      *)
(* order of rows that the ORDER BY does not separate unspecified; a query  *)
(* result is any order the database may produce.                           *)
(*                                                                         *)
(* Strings the code only compares or copies are TLA+ strings.  Tags are    *)
(* trimmed character by character, so a tag is a sequence of characters.   *)
(* Tenant ids are opaque keys, here positive integers; NullId is SQL NULL  *)
(* in a tenant id column.  createdAt of a gallery is left out: it is the   *)
(* tenant's value passed through normalizeDate, which is not in src/.      *)
(***************************************************************************)
EXTENDS Integers, Sequences, FiniteSets, TLC

VARIABLES
    directory,      \* what tenantService.listTenants() returns
    settings,       \* table settings: set of rows
    authUsers,      \* table authUsers: set of rows
    tenantDomains,  \* table tenantDomains: set of rows
    photoAssets,    \* table photoAssets: sequence of rows (equal rows count)
    pc,             \* position of the call
    inflight,       \* queries issued and not yet completed
    queryLog,       \* queries issued by the current call, in order
    validTenants,   \* local validTenants
    siteSettings,   \* local siteSettings (rows as returned)
    authors,        \* local authors (rows as returned)
    domains,        \* local domains (rows as returned)
    photoCounts,    \* local photoCounts (rows as returned)
    tagMap,         \* local tagMap
    tagCursor,      \* index into tenantIds of the for loop at line 78
    result,         \* <<>> or <<returned value>>
    error,          \* <<>> or <<query that threw>>
    prevTags        \* <<>> or <<tags lists of the previous completed call>>

inputs == <<directory, settings, authUsers, tenantDomains, photoAssets>>
locals == <<validTenants, siteSettings, authors, domains, photoCounts, tagMap, tagCursor>>
vars == <<directory, settings, authUsers, tenantDomains, photoAssets, pc, inflight,
          queryLog, validTenants, siteSettings, authors, domains, photoCounts,
          tagMap, tagCursor, result, error, prevTags>>

---------------------------------------------------------------------------
(* Program constants *)

MaxGalleries == 20
TagLimit == 5
NullId == 0
NULL == "<null>"
UNDEFINED == "<undefined>"

(* Bounds of the input families *)

MaxSmallTenants == 2
MaxTenants == 22
MaxSettings == 2
MaxUsers == 3
MaxDomains == 2
MaxPhotos == 3
MaxTagArray == 2
MaxStair == 6

---------------------------------------------------------------------------
(* Generic helpers *)

Range(s) == {s[i] : i \in DOMAIN s}

Min(a, b) == IF a <= b THEN a ELSE b

Front(s) == SubSeq(s, 1, Len(s) - 1)

Last(s) == s[Len(s)]

EmptyMap == <<>>

RECURSIVE Orderings(_)
Orderings(S) ==
    IF S = {} THEN {<<>>}
    ELSE UNION {{<<x>> \o s : s \in Orderings(S \ {x})} : x \in S}

RECURSIVE SeqsUpTo(_, _)
SeqsUpTo(S, n) ==
    IF n = 0 THEN {<<>>}
    ELSE LET shorter == SeqsUpTo(S, n - 1)
         IN shorter \cup {Append(s, x) : s \in {t \in shorter : Len(t) = n - 1}, x \in S}

RECURSIVE SubsetsUpTo(_, _)
SubsetsUpTo(S, n) ==
    IF n = 0 THEN {{}}
    ELSE LET smaller == SubsetsUpTo(S, n - 1)
         IN smaller \cup {T \cup {x} : T \in smaller, x \in S}

---------------------------------------------------------------------------
(* Tenant filter and truncation, lines 20-27 *)

IsValidTenantNoBanCheck(aggregate) ==
    LET tenant == aggregate.tenant
    IN tenant.status = "active" /\ tenant.slug # "root" /\ tenant.slug # "placeholder"

IsValidTenant(aggregate) ==
    LET tenant == aggregate.tenant
    IN /\ ~tenant.banned
       /\ tenant.status = "active"
       /\ tenant.slug # "root"
       /\ tenant.slug # "placeholder"

Slice(s, n) == SubSeq(s, 1, Min(n, Len(s)))

ValidTenantsSliceFirst(aggregates) ==
    SelectSeq(Slice(aggregates, MaxGalleries), IsValidTenant)

ValidTenants(aggregates) ==
    Slice(SelectSeq(aggregates, IsValidTenant), MaxGalleries)

TenantIds(valid) == [i \in DOMAIN valid |-> valid[i].tenant.id]

InArray(x, ids) == x # NullId /\ x \in Range(ids)

---------------------------------------------------------------------------
(* The query records of queryLog and inflight *)

Query(name, tenantId) == [q |-> name, tenantId |-> tenantId]

QListTenants == Query("listTenants", NullId)
QSettings == Query("settings", NullId)
QAuthors == Query("authors", NullId)
QDomains == Query("domains", NullId)
QPhotoCounts == Query("photoCounts", NullId)
QTags(tenantId) == Query("tags", tenantId)

---------------------------------------------------------------------------
(* Settings query, lines 35-38: no ORDER BY, any row order *)

SettingsRows(tenantIds) ==
    {r \in settings : /\ InArray(r.tenantId, tenantIds)
                      /\ r.key \in {"site.name", "site.description"}}

SettingsResults(tenantIds) == Orderings(SettingsRows(tenantIds))

(* Authors query, lines 41-52: ordered by role rank, then createdAt, over *)
(* the rows of all the tenants together; rows equal in both come in any   *)
(* order.  Only tenantId, name and image are selected.                    *)

RoleRank(role) ==
    CASE role = "admin" -> 0
      [] role = "superadmin" -> 1
      [] OTHER -> 2

AuthorBefore(a, b) ==
    \/ RoleRank(a.role) < RoleRank(b.role)
    \/ RoleRank(a.role) = RoleRank(b.role) /\ a.createdAt <= b.createdAt

AuthorsRows(tenantIds) == {r \in authUsers : InArray(r.tenantId, tenantIds)}

AuthorColumns(r) == [tenantId |-> r.tenantId, name |-> r.name, image |-> r.image]

AuthorsOrderedUnsorted(tenantIds) ==
    {[i \in DOMAIN s |-> AuthorColumns(s[i])] : s \in Orderings(AuthorsRows(tenantIds))}

AuthorsOrdered(tenantIds) ==
    {[i \in DOMAIN s |-> AuthorColumns(s[i])] :
        s \in {o \in Orderings(AuthorsRows(tenantIds)) :
                  \A i, j \in DOMAIN o : i < j => AuthorBefore(o[i], o[j])}}

(* Domains query, lines 55-61: verified rows only, any row order *)

DomainsRowsAnyStatus(tenantIds) ==
    {[tenantId |-> r.tenantId, domain |-> r.domain] :
        r \in {d \in tenantDomains : InArray(d.tenantId, tenantIds)}}

DomainsRows(tenantIds) ==
    {[tenantId |-> r.tenantId, domain |-> r.domain] :
        r \in {d \in tenantDomains : /\ InArray(d.tenantId, tenantIds)
                                      /\ d.status = "verified"}}

DomainsResults(tenantIds) == Orderings(DomainsRows(tenantIds))

(* Photo count query, lines 64-71: one row per tenant that has at least   *)
(* one synced or conflict photo                                            *)

Counted(photo) == photo.syncStatus \in {"synced", "conflict"}

PhotoCountOf(tenantId) ==
    Cardinality({i \in DOMAIN photoAssets :
                    photoAssets[i].tenantId = tenantId /\ Counted(photoAssets[i])})

PhotoCountRows(tenantIds) ==
    {[tenantId |-> t, count |-> PhotoCountOf(t)] :
        t \in {x \in Range(tenantIds) : x # NullId /\ PhotoCountOf(x) > 0}}

PhotoCountResults(tenantIds) == Orderings(PhotoCountRows(tenantIds))

---------------------------------------------------------------------------
(* Tag query, lines 79-91.  SQL trim() removes spaces only; String.trim() *)
(* of line 95 removes every white space character.                         *)

SP == " "
TAB == "\t"
SqlTrimChars == {SP}
JsWhiteSpace == {SP, TAB}

RECURSIVE LStrip(_, _)
LStrip(s, ws) == IF s # <<>> /\ Head(s) \in ws THEN LStrip(Tail(s), ws) ELSE s

RECURSIVE RStrip(_, _)
RStrip(s, ws) == IF s # <<>> /\ Last(s) \in ws THEN RStrip(Front(s), ws) ELSE s

SqlTrim(s) == RStrip(LStrip(s, SqlTrimChars), SqlTrimChars)

JsTrim(s) == RStrip(LStrip(s, JsWhiteSpace), JsWhiteSpace)

(* The positions <<photo, element>> of the inner select: one per element  *)
(* of the tags array of every synced or conflict photo of the tenant      *)
TagItems(tenantId) ==
    UNION {{<<i, j>> : j \in DOMAIN photoAssets[i].tags} :
              i \in {p \in DOMAIN photoAssets : /\ photoAssets[p].tenantId = tenantId
                                                 /\ Counted(photoAssets[p])}}

ItemTag(item) == SqlTrim(photoAssets[item[1]].tags[item[2]])

(* where tag is not null and tag != '' ... group by tag *)
TagGroups(tenantId) == {ItemTag(item) : item \in TagItems(tenantId)} \ {<<>>}

TagCount(tenantId, tag) ==
    Cardinality({item \in TagItems(tenantId) : ItemTag(item) = tag})

(* order by count desc limit k: the sequences that take, k times, a group *)
(* of greatest count among the groups left                                 *)
RECURSIVE TopByCount(_, _, _)
TopByCount(tenantId, groups, k) ==
    IF k = 0 \/ groups = {} THEN {<<>>}
    ELSE LET top == {g \in groups :
                        \A h \in groups : TagCount(tenantId, g) >= TagCount(tenantId, h)}
         IN UNION {{<<[tag |-> g, count |-> TagCount(tenantId, g)]>> \o s :
                        s \in TopByCount(tenantId, groups \ {g}, k - 1)} : g \in top}

TagsResults(tenantId) == TopByCount(tenantId, TagGroups(tenantId), TagLimit)

(* lines 93-98 *)
RowTag(row) == JsTrim(row.tag)

NonEmptyTag(tag) == tag # <<>>

TagsOfRows(rows) == SelectSeq([i \in DOMAIN rows |-> RowTag(rows[i])], NonEmptyTag)

---------------------------------------------------------------------------
(* The lookup maps, lines 106-135 *)

(* Map.get: the value, or undefined *)
MapGet(m, k) == IF k \in DOMAIN m THEN m[k] ELSE UNDEFINED

(* a ?? b *)
Coalesce(a, b) == IF a \in {NULL, UNDEFINED} THEN b ELSE a

(* lines 106-112: per tenant a map from key to value; a later row of the  *)
(* same tenant and key overwrites an earlier one                          *)
RECURSIVE SettingsMapFirstWins(_)
SettingsMapFirstWins(rows) ==
    IF rows = <<>> THEN EmptyMap
    ELSE LET m == SettingsMapFirstWins(Front(rows))
             setting == Last(rows)
             inner == IF setting.tenantId \in DOMAIN m THEN m[setting.tenantId] ELSE EmptyMap
         IN (setting.tenantId :> (inner @@ (setting.key :> setting.value))) @@ m

RECURSIVE SettingsMap(_)
SettingsMap(rows) ==
    IF rows = <<>> THEN EmptyMap
    ELSE LET m == SettingsMap(Front(rows))
             setting == Last(rows)
             inner == IF setting.tenantId \in DOMAIN m THEN m[setting.tenantId] ELSE EmptyMap
         IN (setting.tenantId :> ((setting.key :> setting.value) @@ inner)) @@ m

(* lines 114-122: the first row of a tenant is kept *)
AuthorEntry(author) == [name |-> author.name, avatar |-> Coalesce(author.image, NULL)]

RECURSIVE AuthorMap(_)
AuthorMap(rows) ==
    IF rows = <<>> THEN EmptyMap
    ELSE LET m == AuthorMap(Front(rows))
             author == Last(rows)
         IN IF author.tenantId \notin DOMAIN m
            THEN (author.tenantId :> AuthorEntry(author)) @@ m
            ELSE m

(* lines 124-130: the first row of a tenant is kept *)
RECURSIVE DomainMap(_)
DomainMap(rows) ==
    IF rows = <<>> THEN EmptyMap
    ELSE LET m == DomainMap(Front(rows))
             domain == Last(rows)
         IN IF domain.tenantId \notin DOMAIN m
            THEN (domain.tenantId :> domain.domain) @@ m
            ELSE m

(* lines 132-135 *)
RECURSIVE PhotoCountMap(_)
PhotoCountMap(rows) ==
    IF rows = <<>> THEN EmptyMap
    ELSE LET m == PhotoCountMap(Front(rows))
             count == Last(rows)
         IN (count.tenantId :> count.count) @@ m

---------------------------------------------------------------------------
(* The response, lines 138-166 *)

NoAuthor == <<>>

Gallery(aggregate, settingsMap, authorMap, domainMap, photoCountMap, tags) ==
    LET tenant == aggregate.tenant
        tenantSettings == IF tenant.id \in DOMAIN settingsMap
                          THEN settingsMap[tenant.id] ELSE EmptyMap
    IN [id |-> tenant.id,
        name |-> Coalesce(MapGet(tenantSettings, "site.name"), tenant.name),
        slug |-> tenant.slug,
        domain |-> Coalesce(MapGet(domainMap, tenant.id), NULL),
        description |-> Coalesce(MapGet(tenantSettings, "site.description"), NULL),
        author |-> IF tenant.id \in DOMAIN authorMap
                   THEN <<authorMap[tenant.id]>> ELSE NoAuthor,
        photoCount |-> IF tenant.id \in DOMAIN photoCountMap
                       THEN photoCountMap[tenant.id] ELSE 0,
        tags |-> IF tenant.id \in DOMAIN tags THEN tags[tenant.id] ELSE <<>>]

FeaturedGalleries(valid, settingRows, authorRows, domainRows, countRows, tags) ==
    [i \in DOMAIN valid |->
        Gallery(valid[i], SettingsMap(settingRows), AuthorMap(authorRows),
                DomainMap(domainRows), PhotoCountMap(countRows), tags)]

---------------------------------------------------------------------------
(* Inputs: the directory and the tables the call may meet *)

Aggregate(id, slug, name, status, banned) ==
    [tenant |-> [id |-> id, slug |-> slug, name |-> name, status |-> status,
                 banned |-> banned]]

GoodSlug(id) == IF id % 2 = 1 THEN "acme" ELSE "beta"

GoodTenant(id) == Aggregate(id, GoodSlug(id), "Tenant", "active", FALSE)

BadKinds == {"banned", "inactive", "root", "placeholder"}

BadTenant(id, kind) ==
    CASE kind = "banned" -> Aggregate(id, GoodSlug(id), "Tenant", "active", TRUE)
      [] kind = "inactive" -> Aggregate(id, GoodSlug(id), "Tenant", "suspended", FALSE)
      [] kind = "root" -> Aggregate(id, "root", "Tenant", "active", FALSE)
      [] OTHER -> Aggregate(id, "placeholder", "Tenant", "active", FALSE)

(* every directory of at most MaxSmallTenants tenants *)
TenantShapes ==
    [slug : {"root", "placeholder", "acme"}, status : {"active", "suspended"},
     banned : BOOLEAN]

SmallDirectories ==
    {[i \in DOMAIN s |-> Aggregate(i, s[i].slug, "Tenant", s[i].status, s[i].banned)] :
        s \in SeqsUpTo(TenantShapes, MaxSmallTenants)}

(* directories around the truncation: n tenants, at most one of them (at  *)
(* position m) excluded by the filter                                      *)
LongDirectory(n, m, kind) ==
    [i \in 1 .. n |-> IF i = m THEN BadTenant(i, kind) ELSE GoodTenant(i)]

LongDirectories ==
    {LongDirectory(n, 0, "banned") : n \in (MaxGalleries - 1) .. MaxTenants}
    \cup {LongDirectory(n, m, kind) :
            n \in (MaxGalleries - 1) .. MaxTenants, m \in 1 .. MaxTenants, kind \in BadKinds}

(* two tenants that pass the filter and one that does not *)
BaseDirectory == <<GoodTenant(1), GoodTenant(2), BadTenant(3, "banned")>>

SampleSettings == {[tenantId |-> 1, key |-> "site.name", value |-> "One"]}

SampleUsers ==
    {[tenantId |-> 2, name |-> "ann", image |-> NULL, role |-> "admin", createdAt |-> 1]}

SampleDomains == {[tenantId |-> 1, domain |-> "one.example", status |-> "verified"]}

SamplePhotos == <<[tenantId |-> 1, syncStatus |-> "synced", tags |-> <<<<"a">>>>]>>

Input(d, s, u, dm, p) ==
    [directory |-> d, settings |-> s, authUsers |-> u, tenantDomains |-> dm,
     photoAssets |-> p]

DirectoryInputs ==
    {Input(d, SampleSettings, SampleUsers, SampleDomains, SamplePhotos) :
        d \in SmallDirectories \cup LongDirectories}

SettingRows ==
    [tenantId : {1, 2}, key : {"site.name", "site.description", "site.title"},
     value : {NULL, "", "Gallery"}]

SettingsInputs ==
    {Input(BaseDirectory, s, {}, {}, <<>>) : s \in SubsetsUpTo(SettingRows, MaxSettings)}

UserName(role, createdAt) ==
    CASE role = "admin" -> IF createdAt = 1 THEN "ann" ELSE "abe"
      [] role = "superadmin" -> IF createdAt = 1 THEN "sue" ELSE "sam"
      [] OTHER -> IF createdAt = 1 THEN "ugo" ELSE "uma"

UserRow(t, r, c) ==
    [tenantId |-> t, name |-> UserName(r, c), image |-> IF c = 1 THEN NULL ELSE "face.png",
     role |-> r, createdAt |-> c]

(* the users of tenants 1 and 2, and one user of no tenant *)
UserRows ==
    {UserRow(t, r, c) : t \in {1, 2}, r \in {"admin", "superadmin", "user"}, c \in {1, 2}}
    \cup {UserRow(NullId, "admin", 1)}

UsersInputs ==
    {Input(BaseDirectory, {}, u, {}, <<>>) : u \in SubsetsUpTo(UserRows, MaxUsers)}

DomainRows ==
    [tenantId : {1, 2, 3}, domain : {"a.example", "b.example"},
     status : {"verified", "pending"}]

DomainsInputs ==
    {Input(BaseDirectory, {}, {}, d, <<>>) : d \in SubsetsUpTo(DomainRows, MaxDomains)}

PhotoKinds ==
    [tenantId : {1, 2}, syncStatus : {"synced", "conflict", "pending"},
     tags : {<<<<"a">>>>}]

PhotosInputs ==
    {Input(BaseDirectory, {}, {}, {}, p) : p \in SeqsUpTo(PhotoKinds, MaxPhotos)}

(* one photo with every tags array of at most MaxTagArray raw tags, alone *)
(* or beside a second photo                                                *)
RawTags ==
    {<<>>, <<SP>>, <<TAB>>, <<"a">>, <<SP, "a">>, <<TAB, "a">>, <<"a", SP>>, <<"b">>}

TaggedPhoto(tags) == [tenantId |-> 1, syncStatus |-> "synced", tags |-> tags]

ExtraPhoto == [tenantId |-> 1, syncStatus |-> "conflict", tags |-> <<<<"a">>>>]

TagArrayInputs ==
    {Input(BaseDirectory, {}, {}, {}, <<TaggedPhoto(a)>>) :
        a \in SeqsUpTo(RawTags, MaxTagArray)}
    \cup {Input(BaseDirectory, {}, {}, {}, <<TaggedPhoto(a), ExtraPhoto>>) :
            a \in SeqsUpTo(RawTags, MaxTagArray)}

(* photos k = 1..n (without photo m), photo k tagged with the first k     *)
(* letters: letter j occurs in n - j + 1 photos, so more distinct tags    *)
(* than TagLimit occur, with at most two of equal count                   *)
Letters == <<"a", "b", "c", "d", "e", "f", "g", "h">>

StairPhoto(k) == TaggedPhoto([j \in 1 .. k |-> <<Letters[j]>>])

StairPhotos(n, m) ==
    [i \in 1 .. (IF m \in 1 .. n THEN n - 1 ELSE n) |->
        StairPhoto(IF m \in 1 .. n /\ i >= m THEN i + 1 ELSE i)]

StairInputs ==
    {Input(BaseDirectory, {}, {}, {}, StairPhotos(n, m)) : n \in 1 .. MaxStair, m \in 0 .. MaxStair}

Inputs ==
    DirectoryInputs \cup SettingsInputs \cup UsersInputs \cup DomainsInputs
    \cup PhotosInputs \cup TagArrayInputs \cup StairInputs

---------------------------------------------------------------------------
(* The call *)

Init ==
    /\ \E in \in Inputs :
          /\ directory = in.directory
          /\ settings = in.settings
          /\ authUsers = in.authUsers
          /\ tenantDomains = in.tenantDomains
          /\ photoAssets = in.photoAssets
    /\ pc = "idle"
    /\ inflight = {}
    /\ queryLog = <<>>
    /\ validTenants = <<>>
    /\ siteSettings = <<>>
    /\ authors = <<>>
    /\ domains = <<>>
    /\ photoCounts = <<>>
    /\ tagMap = EmptyMap
    /\ tagCursor = 0
    /\ result = <<>>
    /\ error = <<>>
    /\ prevTags = <<>>

tenantIds == TenantIds(validTenants)

(* the query the call is suspended on: the one issued last *)
Awaited == Last(queryLog)

(* the awaited query has completed; issue the next one and suspend on it *)
AwaitWithoutWaiting(position, query) ==
    /\ pc' = position
    /\ inflight' = inflight \cup {query}
    /\ queryLog' = Append(queryLog, query)

Await(position, query) ==
    /\ pc' = position
    /\ inflight' = (inflight \ {Awaited}) \cup {query}
    /\ queryLog' = Append(queryLog, query)

(* the awaited query has completed; return a value to the caller *)
Return(value) ==
    /\ pc' = "done"
    /\ inflight' = inflight \ {Awaited}
    /\ result' = <<value>>
    /\ UNCHANGED queryLog

TagsOfResult == [i \in DOMAIN result[1].galleries |-> result[1].galleries[i].tags]

(* a caller invokes listFeaturedGalleries(); line 17 awaits the directory *)
Invoke ==
    /\ pc \in {"idle", "done", "failed"}
    /\ prevTags' = IF pc = "done" THEN <<TagsOfResult>> ELSE prevTags
    /\ pc' = "listTenants"
    /\ inflight' = inflight \cup {QListTenants}
    /\ queryLog' = <<QListTenants>>
    /\ validTenants' = <<>>
    /\ siteSettings' = <<>>
    /\ authors' = <<>>
    /\ domains' = <<>>
    /\ photoCounts' = <<>>
    /\ tagMap' = EmptyMap
    /\ tagCursor' = 0
    /\ result' = <<>>
    /\ error' = <<>>
    /\ UNCHANGED inputs

(* lines 28-30 *)
NoShortCircuit(ids) == FALSE

ShortCircuit(ids) == Len(ids) = 0

(* lines 17-38 *)
ListTenantsReturns ==
    /\ pc = "listTenants"
    /\ LET valid == ValidTenants(directory)
       IN /\ validTenants' = valid
          /\ IF ShortCircuit(TenantIds(valid))
             THEN Return([galleries |-> <<>>])
             ELSE Await("settings", QSettings) /\ UNCHANGED result
    /\ UNCHANGED <<inputs, siteSettings, authors, domains, photoCounts, tagMap,
                   tagCursor, error, prevTags>>

(* lines 35-52 *)
SettingsReturns ==
    /\ pc = "settings"
    /\ \E rows \in SettingsResults(tenantIds) : siteSettings' = rows
    /\ Await("authors", QAuthors)
    /\ UNCHANGED <<inputs, validTenants, authors, domains, photoCounts, tagMap,
                   tagCursor, result, error, prevTags>>

(* lines 41-61 *)
AuthorsReturns ==
    /\ pc = "authors"
    /\ \E rows \in AuthorsOrdered(tenantIds) : authors' = rows
    /\ Await("domains", QDomains)
    /\ UNCHANGED <<inputs, validTenants, siteSettings, domains, photoCounts, tagMap,
                   tagCursor, result, error, prevTags>>

(* lines 55-71 *)
DomainsReturns ==
    /\ pc = "domains"
    /\ \E rows \in DomainsResults(tenantIds) : domains' = rows
    /\ Await("photoCounts", QPhotoCounts)
    /\ UNCHANGED <<inputs, validTenants, siteSettings, authors, photoCounts, tagMap,
                   tagCursor, result, error, prevTags>>

(* lines 64-79: the loop over tenantIds starts *)
PhotoCountsReturns ==
    /\ pc = "photoCounts"
    /\ \E rows \in PhotoCountResults(tenantIds) : photoCounts' = rows
    /\ tagCursor' = 1
    /\ Await("tags", QTags(tenantIds[1]))
    /\ UNCHANGED <<inputs, validTenants, siteSettings, authors, domains, tagMap,
                   result, error, prevTags>>

(* lines 79-103, and after the last tenant lines 105-166 *)
TagsReturns ==
    /\ pc = "tags"
    /\ \E rows \in TagsResults(tenantIds[tagCursor]) :
          LET tags == TagsOfRows(rows)
              newMap == IF Len(tags) > 0
                        THEN (tenantIds[tagCursor] :> tags) @@ tagMap
                        ELSE tagMap
          IN /\ tagMap' = newMap
             /\ IF tagCursor < Len(tenantIds)
                THEN /\ tagCursor' = tagCursor + 1
                     /\ Await("tags", QTags(tenantIds[tagCursor + 1]))
                     /\ UNCHANGED result
                ELSE /\ Return([galleries |->
                                  FeaturedGalleries(validTenants, siteSettings, authors,
                                                    domains, photoCounts, newMap)])
                     /\ UNCHANGED tagCursor
    /\ UNCHANGED <<inputs, validTenants, siteSettings, authors, domains, photoCounts,
                   error, prevTags>>

(* an awaited query rejects: nothing catches it, the call rejects *)
QueryFailsSwallowed ==
    /\ pc \in {"listTenants", "settings", "authors", "domains", "photoCounts", "tags"}
    /\ error' = <<Awaited>>
    /\ Return([galleries |-> <<>>])
    /\ UNCHANGED <<inputs, locals, prevTags>>

QueryFails ==
    /\ pc \in {"listTenants", "settings", "authors", "domains", "photoCounts", "tags"}
    /\ error' = <<Awaited>>
    /\ pc' = "failed"
    /\ inflight' = inflight \ {Awaited}
    /\ UNCHANGED <<inputs, locals, queryLog, result, prevTags>>

Next ==
    \/ Invoke
    \/ ListTenantsReturns
    \/ SettingsReturns
    \/ AuthorsReturns
    \/ DomainsReturns
    \/ PhotoCountsReturns
    \/ TagsReturns
    \/ QueryFails

Spec == Init /\ [][Next]_vars

---------------------------------------------------------------------------
(* Vocabulary of the properties, stated on the inputs and the returned    *)
(* value, not through the definitions of the call                         *)

Returned == pc = "done"

galleries == result[1].galleries

Excluded(tenant) ==
    \/ tenant.banned
    \/ tenant.status # "active"
    \/ tenant.slug \in {"root", "placeholder"}

(* the positions in the directory of the tenants that survive the filter *)
SurvivorPositions == {j \in DOMAIN directory : ~Excluded(directory[j].tenant)}

(* the position in the directory of the i-th survivor *)
SurvivorAt(i) ==
    LET positions == SurvivorPositions
    IN CHOOSE j \in positions : Cardinality({h \in positions : h <= j}) = i

SurvivorCount == Cardinality(SurvivorPositions)

ListedCount == IF SurvivorCount <= 20 THEN SurvivorCount ELSE 20

HasDuplicate(s) == \E i, j \in DOMAIN s : i # j /\ s[i] = s[j]

IsPrefix(s, t) == Len(s) <= Len(t) /\ \A i \in DOMAIN s : s[i] = t[i]

---------------------------------------------------------------------------
(* C1: no returned gallery has the id of a tenant of the directory that   *)
(* is banned, not active, or has the slug "root" or "placeholder".        *)
C1_NoExcludedTenant ==
    Returned =>
        \A i \in DOMAIN galleries : \A j \in DOMAIN directory :
            directory[j].tenant.id = galleries[i].id => ~Excluded(directory[j].tenant)

(* a call returned galleries from a directory holding a banned tenant, a  *)
(* tenant that is not active and a reserved slug                          *)
C1_Witness ==
    /\ Returned
    /\ Len(galleries) >= 1
    /\ \E j \in DOMAIN directory : Excluded(directory[j].tenant)

(* C2: the galleries are the first min(20, k) of the k survivors, in      *)
(* directory order, one per survivor with its id and slug; the filter is  *)
(* applied before the truncation; at most 20 galleries are returned.      *)
C2_FirstTwentySurvivors ==
    Returned =>
        /\ Len(galleries) = ListedCount
        /\ Len(galleries) <= 20
        /\ \A i \in DOMAIN galleries :
              /\ galleries[i].id = directory[SurvivorAt(i)].tenant.id
              /\ galleries[i].slug = directory[SurvivorAt(i)].tenant.slug

(* an excluded tenant among the first 20 entries, and the 21st entry is   *)
(* returned as the 20th gallery                                           *)
C2_Witness ==
    /\ Returned
    /\ Len(directory) > 20
    /\ \E j \in 1 .. 20 : Excluded(directory[j].tenant)
    /\ Len(galleries) = 20
    /\ galleries[20].id = directory[21].tenant.id

(* C3: when no tenant survives the filter, the call returns               *)
(* {galleries: []} and no query follows the tenant fetch.                 *)
C3_EmptyShortCircuit ==
    SurvivorCount = 0 =>
        /\ IsPrefix(queryLog, <<QListTenants>>)
        /\ Returned => result = <<[galleries |-> <<>>]>>

(* a call over a directory whose tenants are all excluded has returned *)
C3_Witness ==
    /\ Returned
    /\ Len(directory) >= 1
    /\ SurvivorCount = 0
    /\ queryLog = <<QListTenants>>

---------------------------------------------------------------------------
(* the positions in siteSettings of the site.name rows of a tenant *)
SiteNameRows(tenantId) ==
    {k \in DOMAIN siteSettings : /\ siteSettings[k].tenantId = tenantId
                                  /\ siteSettings[k].key = "site.name"}

LastSiteNameRow(tenantId) ==
    CHOOSE k \in SiteNameRows(tenantId) : \A h \in SiteNameRows(tenantId) : h <= k

(* C4 as stated: the gallery's name equals the value of every site.name   *)
(* row the settings query returned for the tenant, null included.         *)
C4_NameIsSettingValue ==
    Returned =>
        \A i \in DOMAIN galleries : \A k \in SiteNameRows(galleries[i].id) :
            galleries[i].name = siteSettings[k].value

(* C4 amended: the gallery's name is the value of the last site.name row  *)
(* the settings query returned for the tenant when that value is not      *)
(* null, and the tenant's own name when it is null.                       *)
C4_NameIsLastNonNullSettingValue ==
    Returned =>
        \A i \in DOMAIN galleries :
            SiteNameRows(galleries[i].id) # {} =>
                LET value == siteSettings[LastSiteNameRow(galleries[i].id)].value
                IN galleries[i].name =
                       IF value = NULL THEN directory[SurvivorAt(i)].tenant.name ELSE value

(* a tenant with two site.name rows, the first returned not null *)
C4_Witness ==
    /\ Returned
    /\ \E i \in DOMAIN galleries :
          /\ Cardinality(SiteNameRows(galleries[i].id)) = 2
          /\ \E k \in SiteNameRows(galleries[i].id) :
                /\ k # LastSiteNameRow(galleries[i].id)
                /\ siteSettings[k].value = "Gallery"

---------------------------------------------------------------------------
(* the raw tags of the synced and conflict photos of a tenant that are    *)
(* the given tag once trimmed                                             *)
RawOccurrences(tenantId, tag) ==
    {<<p, e>> \in UNION {{<<p, e>> : e \in DOMAIN photoAssets[p].tags} :
                            p \in DOMAIN photoAssets} :
        /\ photoAssets[p].tenantId = tenantId
        /\ photoAssets[p].syncStatus \in {"synced", "conflict"}
        /\ JsTrim(photoAssets[p].tags[e]) = tag}

Frequency(tenantId, tag) == Cardinality(RawOccurrences(tenantId, tag))

(* C5: every gallery's tags list has no duplicate, no string that is      *)
(* empty after trimming, at most 5 entries, and non-increasing frequency. *)
C5_TagsWellFormed ==
    Returned =>
        \A i \in DOMAIN galleries :
            LET tags == galleries[i].tags
            IN /\ ~HasDuplicate(tags)
               /\ \A k \in DOMAIN tags : JsTrim(tags[k]) # <<>>
               /\ Len(tags) <= 5
               /\ \A k, l \in DOMAIN tags :
                     k < l => Frequency(galleries[i].id, tags[k])
                                  >= Frequency(galleries[i].id, tags[l])

---------------------------------------------------------------------------
(* C6: absent related data gives the defaults: no verified domain row     *)
(* gives domain null (and a domain always comes from a verified row of    *)
(* the tenant), no user row gives author null, no site.description row    *)
(* gives description null, no synced or conflict photo gives photoCount   *)
(* 0, no tag with a character that is not white space gives tags [].      *)
C6_DefaultsWhenAbsent ==
    Returned =>
        \A i \in DOMAIN galleries :
            LET g == galleries[i]
                photos == {p \in DOMAIN photoAssets :
                              /\ photoAssets[p].tenantId = g.id
                              /\ photoAssets[p].syncStatus \in {"synced", "conflict"}}
            IN /\ (~\E d \in tenantDomains : d.tenantId = g.id /\ d.status = "verified")
                      => g.domain = NULL
               /\ g.domain # NULL =>
                      \E d \in tenantDomains :
                          d.tenantId = g.id /\ d.status = "verified" /\ d.domain = g.domain
               /\ (~\E u \in authUsers : u.tenantId = g.id) => g.author = NoAuthor
               /\ (~\E r \in settings : r.tenantId = g.id /\ r.key = "site.description")
                      => g.description = NULL
               /\ photos = {} => g.photoCount = 0
               /\ (\A p \in photos : \A e \in DOMAIN photoAssets[p].tags :
                       JsTrim(photoAssets[p].tags[e]) = <<>>) => g.tags = <<>>

(* a tenant whose only domain row is not verified, and that has no user,  *)
(* no setting and no photo, is returned with every default                *)
C6_Witness ==
    /\ Returned
    /\ \E i \in DOMAIN galleries :
          /\ \E d \in tenantDomains : d.tenantId = galleries[i].id /\ d.status = "pending"
          /\ ~\E d \in tenantDomains : d.tenantId = galleries[i].id /\ d.status = "verified"
          /\ galleries[i].domain = NULL
          /\ galleries[i].author = NoAuthor
          /\ galleries[i].description = NULL
          /\ galleries[i].photoCount = 0
          /\ galleries[i].tags = <<>>

---------------------------------------------------------------------------
(* C7: when a query of the call fails, the call fails with that error:    *)
(* nothing is returned, the failed query was issued once and last, no     *)
(* query is in flight, and the only step that follows is a new call.      *)
C7_FailurePropagates ==
    /\ [](error # <<>> =>
            /\ pc = "failed"
            /\ result = <<>>
            /\ inflight = {}
            /\ error = <<Last(queryLog)>>
            /\ Cardinality({k \in DOMAIN queryLog : queryLog[k] = error[1]}) = 1)
    /\ [][pc = "failed" => pc' = "listTenants" /\ queryLog' = <<QListTenants>>]_vars

(* the tag query of the second tenant failed after the first tenant's     *)
(* tags had been collected                                                *)
C7_Witness ==
    /\ pc = "failed"
    /\ error = <<QTags(2)>>
    /\ DOMAIN tagMap = {1}
    /\ photoCounts # <<>>

---------------------------------------------------------------------------
(* the k-th query of a call with at least one survivor *)
ExpectedQuery(k) ==
    IF k <= 5
    THEN <<QListTenants, QSettings, QAuthors, QDomains, QPhotoCounts>>[k]
    ELSE QTags(directory[SurvivorAt(k - 5)].tenant.id)

(* C8: queries are issued one at a time, each after the previous one      *)
(* completed, in the order tenant fetch, settings, authors, domains,      *)
(* photo counts, then one tag query per surviving tenant in list order:   *)
(* 4 + N queries (at most 24) follow the tenant fetch.                    *)
C8_SequentialQueries ==
    /\ Cardinality(inflight) <= 1
    /\ inflight # {} => inflight = {Last(queryLog)}
    /\ SurvivorCount >= 1 =>
          /\ Len(queryLog) <= 5 + ListedCount
          /\ \A k \in DOMAIN queryLog : queryLog[k] = ExpectedQuery(k)
          /\ Returned =>
                /\ Len(queryLog) - 1 = 4 + ListedCount
                /\ Len(queryLog) - 1 <= 24

(* a call over more than one survivor has returned *)
C8_Witness ==
    /\ Returned
    /\ SurvivorCount >= 2
    /\ Len(queryLog) = 5 + ListedCount
    /\ queryLog[Len(queryLog)].q = "tags"

---------------------------------------------------------------------------
Rank(role) == IF role = "admin" THEN 0 ELSE IF role = "superadmin" THEN 1 ELSE 2

UsersOf(tenantId) == {u \in authUsers : u.tenantId = tenantId}

BestUsers(tenantId) ==
    {u \in UsersOf(tenantId) :
        \A o \in UsersOf(tenantId) :
            \/ Rank(u.role) < Rank(o.role)
            \/ Rank(u.role) = Rank(o.role) /\ u.createdAt <= o.createdAt}

(* C9: the author of a tenant that has a user row is that tenant's own    *)
(* row of best role rank and, within the rank, earliest createdAt.        *)
C9_AuthorIsBestOwnUser ==
    Returned =>
        \A i \in DOMAIN galleries :
            UsersOf(galleries[i].id) # {} =>
                /\ galleries[i].author # NoAuthor
                /\ \E u \in BestUsers(galleries[i].id) :
                      /\ galleries[i].author[1].name = u.name
                      /\ galleries[i].author[1].avatar = u.image

(* tenant 1 has an early plain user and a later admin, and the row that   *)
(* sorts first overall belongs to tenant 2                                *)
C9_Witness ==
    /\ Returned
    /\ Len(authors) = 3
    /\ authors[1].tenantId = 2
    /\ \E u, a \in UsersOf(1) :
          /\ u.role = "user" /\ a.role = "admin" /\ u.createdAt < a.createdAt
          /\ galleries[1].author = <<[name |-> a.name, avatar |-> a.image]>>

---------------------------------------------------------------------------
(* C10: a call returns the same tags lists as the previous completed call *)
(* over the same directory and tables.                                    *)
C10_SameTagsEachCall ==
    (Returned /\ prevTags # <<>>) => TagsOfResult = prevTags[1]

====
